---- MODULE Spec2Model ----
(***************************************************************************)
(* Authentication and session layer of the sales BI dashboard              *)
(* (src/auth/handlers.py, src/auth/ui.py, src/auth/decorators.py).         *)
(*                                                                         *)
(* st.session_state of one browser session is a dictionary: a function     *)
(* whose domain is the set of keys present.                                *)
(*                                                                         *)
(* Time is discrete and measured from the present: the clock reads `now`   *)
(* = 0 on every call, a stored timestamp is the (non-positive) time at     *)
(* which it was written, and the passing of one unit of time (Tick) moves  *)
(* every stored timestamp one unit into the past.  The handlers only ever  *)
(* compare a stored timestamp with the present, against lockout_duration   *)
(* or session_timeout, so a timestamp older than both is as good as any    *)
(* older one and stops ageing at -Horizon: time itself is unbounded.       *)
(* Every clock read of one handler call returns the same time.             *)
(* Each handler is an operator from the session dictionary (and its        *)
(* inputs) to the new dictionary, the returned value, the exception that   *)
(* escapes and the messages shown; an action applies one handler.          *)
(***************************************************************************)
EXTENDS Integers, Sequences, FiniteSets, TLC

(* ---------------- bounds of the model ---------------- *)
\* the age beyond which stored timestamps are no longer told apart; it
\* exceeds lockout_duration and session_timeout
Horizon == 4

(* ---------------- configuration (AUTH_CONFIG) ---------------- *)
\* handlers.py:28  AUTH_CONFIG.get("max_attempts", 3)
max_attempts == 3
\* handlers.py:29  AUTH_CONFIG.get("lockout_duration", 900); a configured
\* value, here two units of time
lockout_duration == 2
\* handlers.py:30  AUTH_CONFIG.get("session_timeout", 3600); a configured
\* value, here three units of time
session_timeout == 3

Sessions == {"A", "B"}
Usernames == {"alice"}
Passwords == {"pw1", "pw2"}
\* values secrets.token_hex(32) may return
TokenHex == {"r1", "r2"}

\* datetime.now(): the present
now == 0

VARIABLES
    session_state,  \* session_state[s]: st.session_state of session s
    users,          \* the rows of the users table with delete_flag = 0
    activity,       \* per session: when login / refresh_session were called
    last,           \* the handler call (or environment step) just made
    query           \* the execute_query call in progress, if any

vars == <<session_state, users, activity, last, query>>

(* ---------------- dictionaries ---------------- *)
EmptyDict == [k \in {} |-> TRUE]
Has(ss, k) == k \in DOMAIN ss
Get(ss, k, d) == IF k \in DOMAIN ss THEN ss[k] ELSE d
Set(ss, k, v) == [y \in DOMAIN ss \cup {k} |-> IF y = k THEN v ELSE ss[y]]
Del(ss, k) == [y \in DOMAIN ss \ {k} |-> ss[y]]

\* key = f"failed_attempts_{username}"
FailedKey(username) == "failed_attempts_" \o username

(* ---------------- timestamps ---------------- *)
\* datetime.isoformat(): the string form of a timestamp
isoformat(t) == <<"iso", t>>
\* a stored value datetime.fromisoformat() rejects with ValueError
Malformed == <<"garbage", 0>>
IsIso(v) == v[1] = "iso"
\* datetime.fromisoformat(v), defined when IsIso(v)
fromisoformat(v) == v[2]

\* a timestamp one unit of time later: one unit further in the past
Older(t) == IF t - 1 < 0 - Horizon THEN 0 - Horizon ELSE t - 1
Aged(v) == IF IsIso(v) THEN isoformat(Older(fromisoformat(v))) ELSE v

(* ---------------- UI messages ---------------- *)
Msg(level, text, n) == [level |-> level, text |-> text, n |-> n]
LockedText == "Account is temporarily locked due to multiple failed attempts"
DeactivatedText == "Account is deactivated"
AuthFailedText == "Authentication failed"
LoginErrorText == "An error occurred during login"
\* the messages an AuthenticationError is raised with
AuthenticationErrors == {LockedText, DeactivatedText, AuthFailedText}

(* ---------------- password hasher ---------------- *)
\* hashlib.sha256(x).hexdigest(): a collision-free digest
sha256(x) == <<"sha256", x>>

\* hash_password(password, salt): an empty or missing salt is replaced by a
\* fresh random one (rnd)
hash_password(password, salt, rnd) ==
    LET s == IF salt = "" THEN rnd ELSE salt
    IN  [hash |-> sha256(password \o s), salt |-> s]

verify_password(password, password_hash, salt, rnd) ==
    hash_password(password, salt, rnd).hash = password_hash

(* ---------------- the users table ---------------- *)
\* The rows of the users table.  is_active and delete_flag are changed by
\* the administration outside this subsystem; a username whose row has
\* delete_flag = 1 is unknown to every query.  The last_login column is
\* written by update_last_login and read by no decision of this subsystem:
\* the table keeps no value for it, the write itself is what is recorded.
InitUsers ==
    [u \in Usernames |->
        [password_hash |-> sha256("pw1" \o "s1"),
         password_salt |-> "s1",
         role          |-> "admin",
         is_active     |-> TRUE,
         delete_flag   |-> 0]]

\* db_manager.execute_query(query, {"username": username}) for the two
\* SELECT ... WHERE username = :username AND delete_flag = 0: the rows of df
SelectUser(tbl, username) ==
    IF username \in DOMAIN tbl /\ tbl[username].delete_flag = 0
    THEN << tbl[username] >> ELSE << >>

(* ---------------- lockout tracker ---------------- *)
\* st.session_state.get(key, []) for the failed-attempt key of a username
Attempts(ss, username) == Get(ss, FailedKey(username), << >>)

\* is_account_locked with `>` for `>=` in the count test
is_account_locked_gt(ss, username, t) ==
    LET key == FailedKey(username)
        attempts == Get(ss, key, << >>)
    IN  IF Len(attempts) > max_attempts
        THEN LET last_attempt == fromisoformat(attempts[Len(attempts)])
             IN  IF t < last_attempt + lockout_duration
                 THEN [ss |-> ss, ret |-> TRUE, exc |-> ""]
                 ELSE [ss |-> Set(ss, key, << >>), ret |-> FALSE, exc |-> ""]
        ELSE [ss |-> ss, ret |-> FALSE, exc |-> ""]

\* is_account_locked that leaves the entries of an expired lockout in place
is_account_locked_keeps_log(ss, username, t) ==
    LET attempts == Get(ss, FailedKey(username), << >>)
    IN  IF Len(attempts) >= max_attempts
        THEN IF ~IsIso(attempts[Len(attempts)])
             THEN [ss |-> ss, ret |-> FALSE, exc |-> "ValueError"]
             ELSE [ss |-> ss,
                   ret |-> (t < fromisoformat(attempts[Len(attempts)])
                                  + lockout_duration),
                   exc |-> ""]
        ELSE [ss |-> ss, ret |-> FALSE, exc |-> ""]

\* is_account_locked that never finds an account locked
is_account_locked_never(ss, username, t) ==
    [ss |-> ss, ret |-> FALSE, exc |-> ""]

\* is_account_locked(username).  exc = "ValueError" when
\* datetime.fromisoformat rejects the newest stored entry.
is_account_locked(ss, username, t) ==
    LET key == FailedKey(username)
        attempts == Get(ss, key, << >>)
    IN  IF Len(attempts) >= max_attempts
        THEN IF ~IsIso(attempts[Len(attempts)])
             THEN [ss |-> ss, ret |-> FALSE, exc |-> "ValueError"]
             ELSE LET last_attempt == fromisoformat(attempts[Len(attempts)])
                      lockout_end == last_attempt + lockout_duration
                  IN  IF t < lockout_end
                      THEN [ss |-> ss, ret |-> TRUE, exc |-> ""]
                      ELSE [ss |-> Set(ss, key, << >>), ret |-> FALSE,
                            exc |-> ""]
        ELSE [ss |-> ss, ret |-> FALSE, exc |-> ""]

\* the filter with `>=` for `>`
Recent_ge(a, cutoff) == fromisoformat(a) >= cutoff

\* `datetime.fromisoformat(a) > cutoff`
Recent(a, cutoff) == fromisoformat(a) > cutoff

\* record_failed_attempt that still warns when no attempt remains
record_failed_attempt_warns_at_zero(ss, username, t) ==
    LET key == FailedKey(username)
        appended == Append(Get(ss, key, << >>), isoformat(t))
        cutoff == t - lockout_duration
        attempts == SelectSeq(appended, LAMBDA a : Recent(a, cutoff))
        remaining == max_attempts - Len(attempts)
    IN  IF \E i \in 1..Len(appended) : ~IsIso(appended[i])
        THEN [ss |-> IF Has(ss, key) THEN Set(ss, key, appended) ELSE ss,
              msgs |-> << >>, exc |-> "ValueError"]
        ELSE [ss |-> Set(ss, key, attempts),
              msgs |-> IF remaining >= 0
                       THEN << Msg("warning", "Invalid credentials", remaining) >>
                       ELSE << Msg("error", "Account locked", lockout_duration) >>,
              exc |-> ""]

\* record_failed_attempt(username).  The new timestamp is appended to the
\* list object held in the session (when there is one) before the list is
\* filtered; exc = "ValueError" when datetime.fromisoformat rejects an entry
\* while filtering, and the filtered list is then never stored.
record_failed_attempt(ss, username, t) ==
    LET key == FailedKey(username)
        appended == Append(Get(ss, key, << >>), isoformat(t))
        cutoff == t - lockout_duration
        attempts == SelectSeq(appended, LAMBDA a : Recent(a, cutoff))
        remaining == max_attempts - Len(attempts)
    IN  IF \E i \in 1..Len(appended) : ~IsIso(appended[i])
        THEN [ss |-> IF Has(ss, key) THEN Set(ss, key, appended) ELSE ss,
              msgs |-> << >>, exc |-> "ValueError"]
        ELSE [ss |-> Set(ss, key, attempts),
              msgs |-> IF remaining > 0
                       THEN << Msg("warning", "Invalid credentials", remaining) >>
                       ELSE << Msg("error", "Account locked", lockout_duration) >>,
              exc |-> ""]

\* clear_failed_attempts that removes nothing
clear_failed_attempts_noop(ss, username) == ss

\* clear_failed_attempts(username)
clear_failed_attempts(ss, username) ==
    IF Has(ss, FailedKey(username)) THEN Del(ss, FailedKey(username)) ELSE ss

(* ---------------- user model (models.py) ---------------- *)
\* a User value: the fields the access decisions read (username, role,
\* is_active); id, email, employee_id and the two dates are carried along
\* unread and are left out
NoUser == [username |-> "", role |-> "", is_active |-> FALSE]

\* User.to_dict(): the dictionary kept under session_state['user']
to_dict(user) ==
    [username |-> user.username, role |-> user.role,
     is_active |-> user.is_active]

\* User.from_dict(data)
from_dict(data) ==
    [username |-> data.username, role |-> data.role,
     is_active |-> data.is_active]

(* ---------------- authenticator ---------------- *)
\* get_user(username): profOk is whether execute_query returned; a store
\* failure is logged and None is returned
get_user(tbl, username, profOk) ==
    IF ~profOk \/ SelectUser(tbl, username) = << >>
    THEN [found |-> FALSE, user |-> NoUser]
    ELSE LET row == SelectUser(tbl, username)[1]
         IN  [found |-> TRUE,
              user  |-> [username   |-> username,
                         role       |-> IF row.role # "" THEN row.role
                                        ELSE "viewer",
                         is_active  |-> row.is_active]]

\* update_last_login(username): updOk is whether the UPDATE went through;
\* a failure is logged and swallowed.  The value is whether last_login of
\* the row was written.
update_last_login(tbl, username, updOk) ==
    updOk /\ username \in DOMAIN tbl

AuthResult(ss, wrote, ret, user, exc, msgs, queries) ==
    [ss |-> ss, wrote |-> wrote, ret |-> ret, user |-> user, exc |-> exc,
     msgs |-> msgs, queries |-> queries]

\* the active flag is never found false
RowInactive_never(row) == FALSE

\* `not bool(row['is_active'])`
RowInactive(row) == ~row.is_active

\* authenticate, the branch taken when the password verified: clear the
\* failed attempts, update last_login, fetch and return the full user
on_verified(ss, tbl, username, updOk, profOk) ==
    LET cleared == clear_failed_attempts(ss, username)
        wrote == update_last_login(tbl, username, updOk)
        gu == get_user(tbl, username, profOk)
    IN  AuthResult(cleared, wrote, IF gu.found THEN "User" ELSE "None",
                   gu.user, "", << >>, 2)

\* a deactivated account is counted as a failed attempt before the error
\* is raised
deactivated_counted(ss, username, t) ==
    AuthResult(record_failed_attempt(ss, username, t).ss, FALSE, "raise",
               NoUser, DeactivatedText, << >>, 1)

\* authenticate, `raise AuthenticationError("Account is deactivated")`
deactivated(ss, username, t) ==
    AuthResult(ss, FALSE, "raise", NoUser, DeactivatedText, << >>, 1)

\* the outcome of a failed attempt inside the try block: "no match", or
\* 'Authentication failed' when recording it raised
on_failed(ss, username, t) ==
    LET rf == record_failed_attempt(ss, username, t)
    IN  IF rf.exc # ""
        THEN AuthResult(rf.ss, FALSE, "raise", NoUser, AuthFailedText, << >>, 1)
        ELSE AuthResult(rf.ss, FALSE, "None", NoUser, "", rf.msgs, 1)

\* the try block in which an unknown username is not recorded as a failure
check_credentials_unknown_silent(ss, tbl, username, password, t, credOk, updOk, profOk, rnd) ==
    IF ~credOk
    THEN AuthResult(ss, FALSE, "raise", NoUser, AuthFailedText, << >>, 1)
    ELSE IF SelectUser(tbl, username) = << >>
    THEN AuthResult(ss, FALSE, "None", NoUser, "", << >>, 1)
    ELSE LET row == SelectUser(tbl, username)[1]
         IN  IF RowInactive(row)
             THEN deactivated(ss, username, t)
             ELSE IF verify_password(password, row.password_hash,
                                     row.password_salt, rnd)
             THEN on_verified(ss, tbl, username, updOk, profOk)
             ELSE on_failed(ss, username, t)

\* authenticate, the try block: the credential query and what follows it.
\* credOk: the credential query returned (otherwise execute_query raised
\* after its retries).  An AuthenticationError raised inside is re-raised,
\* any other exception is turned into 'Authentication failed'.
check_credentials(ss, tbl, username, password, t, credOk, updOk, profOk, rnd) ==
    IF ~credOk
    THEN AuthResult(ss, FALSE, "raise", NoUser, AuthFailedText, << >>, 1)
    ELSE IF SelectUser(tbl, username) = << >>
    THEN on_failed(ss, username, t)
    ELSE LET row == SelectUser(tbl, username)[1]
         IN  IF RowInactive(row)
             THEN deactivated(ss, username, t)
             ELSE IF verify_password(password, row.password_hash,
                                     row.password_salt, rnd)
             THEN on_verified(ss, tbl, username, updOk, profOk)
             ELSE on_failed(ss, username, t)

\* authenticate that records an attempt made during a lockout before it
\* refuses it
authenticate_counts_locked(ss, tbl, username, password, t, credOk, updOk, profOk, rnd) ==
    LET lk == is_account_locked(ss, username, t)
    IN  IF lk.exc # ""
        THEN AuthResult(lk.ss, FALSE, "raise", NoUser, lk.exc, << >>, 0)
        ELSE IF lk.ret
        THEN AuthResult(record_failed_attempt(lk.ss, username, t).ss, FALSE,
                        "raise", NoUser, LockedText, << >>, 0)
        ELSE check_credentials(lk.ss, tbl, username, password, t, credOk,
                               updOk, profOk, rnd)

\* authenticate(username, password).  ret is "User", "None" or "raise";
\* exc is the text of the AuthenticationError raised, or "ValueError" for
\* the exception that escapes the lock check, which no handler catches here.
authenticate(ss, tbl, username, password, t, credOk, updOk, profOk, rnd) ==
    LET lk == is_account_locked(ss, username, t)
    IN  IF lk.exc # ""
        THEN AuthResult(lk.ss, FALSE, "raise", NoUser, lk.exc, << >>, 0)
        ELSE IF lk.ret
        THEN AuthResult(lk.ss, FALSE, "raise", NoUser, LockedText, << >>, 0)
        ELSE check_credentials(lk.ss, tbl, username, password, t, credOk,
                               updOk, profOk, rnd)

\* login that lets the error raised by authenticate escape
login_reraises(ss, tbl, username, password, t, credOk, updOk, profOk, rnd) ==
    LET a == authenticate(ss, tbl, username, password, t, credOk, updOk,
                          profOk, rnd)
    IN  IF a.ret = "User"
        THEN [ss |-> Set(Set(Set(a.ss, "user", to_dict(a.user)),
                             "authenticated", TRUE),
                         "login_time", isoformat(t)),
              wrote |-> a.wrote, ret |-> TRUE, raised |-> FALSE, exc |-> "",
              msgs |-> a.msgs, queries |-> a.queries]
        ELSE [ss |-> a.ss, wrote |-> a.wrote, ret |-> FALSE,
              raised |-> (a.ret = "raise"), exc |-> a.exc, msgs |-> a.msgs,
              queries |-> a.queries]

\* login that marks the session authenticated whatever authenticate says
login_marks_always(ss, tbl, username, password, t, credOk, updOk, profOk, rnd) ==
    LET a == authenticate(ss, tbl, username, password, t, credOk, updOk,
                          profOk, rnd)
    IN  [ss |-> Set(a.ss, "authenticated", TRUE), wrote |-> a.wrote,
         ret |-> (a.ret = "User"), raised |-> FALSE, exc |-> a.exc,
         msgs |-> a.msgs, queries |-> a.queries]

\* login that ends the current session when authenticate does not return a
\* user
login_drops_session(ss, tbl, username, password, t, credOk, updOk, profOk, rnd) ==
    LET a == authenticate(ss, tbl, username, password, t, credOk, updOk,
                          profOk, rnd)
    IN  IF a.ret = "User"
        THEN [ss |-> Set(Set(Set(a.ss, "user", to_dict(a.user)),
                             "authenticated", TRUE),
                         "login_time", isoformat(t)),
              wrote |-> a.wrote, ret |-> TRUE, raised |-> FALSE, exc |-> "",
              msgs |-> a.msgs, queries |-> a.queries]
        ELSE [ss |-> Del(Del(Del(a.ss, "user"), "authenticated"),
                         "login_time"),
              wrote |-> a.wrote, ret |-> FALSE,
              raised |-> FALSE, exc |-> a.exc, msgs |-> a.msgs,
              queries |-> a.queries]

\* login that establishes the session without storing login_time
login_without_time(ss, tbl, username, password, t, credOk, updOk, profOk, rnd) ==
    LET a == authenticate(ss, tbl, username, password, t, credOk, updOk,
                          profOk, rnd)
    IN  IF a.ret = "User"
        THEN [ss |-> Set(Set(a.ss, "user", to_dict(a.user)),
                         "authenticated", TRUE),
              wrote |-> a.wrote, ret |-> TRUE, raised |-> FALSE, exc |-> "",
              msgs |-> a.msgs, queries |-> a.queries]
        ELSE [ss |-> a.ss, wrote |-> a.wrote, ret |-> FALSE,
              raised |-> FALSE, exc |-> a.exc, msgs |-> a.msgs,
              queries |-> a.queries]

\* login(username, password).  ret is the boolean returned; raised is
\* whether an exception escaped to the caller.
login(ss, tbl, username, password, t, credOk, updOk, profOk, rnd) ==
    LET a == authenticate(ss, tbl, username, password, t, credOk, updOk,
                          profOk, rnd)
    IN  IF a.ret = "User"
        THEN [ss |-> Set(Set(Set(a.ss, "user", to_dict(a.user)),
                             "authenticated", TRUE),
                         "login_time", isoformat(t)),
              wrote |-> a.wrote, ret |-> TRUE, raised |-> FALSE, exc |-> "",
              msgs |-> a.msgs, queries |-> a.queries]
        ELSE IF a.ret = "None"
        THEN [ss |-> a.ss, wrote |-> a.wrote, ret |-> FALSE, raised |-> FALSE,
              exc |-> "", msgs |-> a.msgs, queries |-> a.queries]
        ELSE IF a.exc \in AuthenticationErrors
        THEN [ss |-> a.ss, wrote |-> a.wrote, ret |-> FALSE, raised |-> FALSE,
              exc |-> a.exc,
              msgs |-> a.msgs \o << Msg("error", a.exc, 0) >>,
              queries |-> a.queries]
        ELSE [ss |-> a.ss, wrote |-> a.wrote, ret |-> FALSE, raised |-> FALSE,
              exc |-> a.exc,
              msgs |-> a.msgs \o << Msg("error", LoginErrorText, 0) >>,
              queries |-> a.queries]

(* ---------------- session manager ---------------- *)
SessionKeys == {"user", "authenticated", "login_time"}

\* logout that empties the whole session dictionary
logout_clears_all(ss) == EmptyDict

\* logout that leaves the user dictionary in the session
logout_keeps_user(ss) ==
    [k \in DOMAIN ss \ {"authenticated", "login_time"} |-> ss[k]]

\* logout(): removes the three session keys that are present
logout(ss) == [k \in DOMAIN ss \ SessionKeys |-> ss[k]]

\* is_authenticated with `>=` for `>` in the timeout test
is_authenticated_ge(ss, t) ==
    IF ~Get(ss, "authenticated", FALSE)
    THEN [ss |-> ss, ret |-> FALSE, exc |-> "", msgs |-> << >>]
    ELSE IF Has(ss, "login_time")
    THEN IF ~IsIso(ss["login_time"])
         THEN [ss |-> ss, ret |-> FALSE, exc |-> "ValueError", msgs |-> << >>]
         ELSE IF t - fromisoformat(ss["login_time"]) >= session_timeout
         THEN [ss |-> logout(ss), ret |-> FALSE, exc |-> "",
               msgs |-> << Msg("warning", "Session expired", 0) >>]
         ELSE [ss |-> ss, ret |-> TRUE, exc |-> "", msgs |-> << >>]
    ELSE [ss |-> ss, ret |-> TRUE, exc |-> "", msgs |-> << >>]

\* is_authenticated().  exc = "ValueError" when datetime.fromisoformat
\* rejects the stored login_time; nothing catches it.
is_authenticated(ss, t) ==
    IF ~Get(ss, "authenticated", FALSE)
    THEN [ss |-> ss, ret |-> FALSE, exc |-> "", msgs |-> << >>]
    ELSE IF Has(ss, "login_time")
    THEN IF ~IsIso(ss["login_time"])
         THEN [ss |-> ss, ret |-> FALSE, exc |-> "ValueError", msgs |-> << >>]
         ELSE IF t - fromisoformat(ss["login_time"]) > session_timeout
         THEN [ss |-> logout(ss), ret |-> FALSE, exc |-> "",
               msgs |-> << Msg("warning", "Session expired", 0) >>]
         ELSE [ss |-> ss, ret |-> TRUE, exc |-> "", msgs |-> << >>]
    ELSE [ss |-> ss, ret |-> TRUE, exc |-> "", msgs |-> << >>]

\* get_current_user(): found is FALSE for None
get_current_user(ss, t) ==
    LET ia == is_authenticated(ss, t)
    IN  IF ia.exc = "" /\ ia.ret /\ Has(ia.ss, "user")
        THEN [ss |-> ia.ss, found |-> TRUE, user |-> from_dict(ia.ss["user"]),
              exc |-> "", msgs |-> ia.msgs]
        ELSE [ss |-> ia.ss, found |-> FALSE, user |-> NoUser,
              exc |-> ia.exc, msgs |-> ia.msgs]

\* refresh_session that checks the session but does not restart the timeout
refresh_session_keeps_time(ss, t) ==
    LET ia == is_authenticated(ss, t)
    IN  [ss |-> ia.ss, exc |-> ia.exc, msgs |-> ia.msgs]

\* refresh_session that stamps login_time whether or not the session is
\* authenticated
refresh_session_always(ss, t) ==
    LET ia == is_authenticated(ss, t)
    IN  [ss |-> Set(ia.ss, "login_time", isoformat(t)), exc |-> ia.exc,
         msgs |-> ia.msgs]

\* refresh_session()
refresh_session(ss, t) ==
    LET ia == is_authenticated(ss, t)
    IN  IF ia.exc = "" /\ ia.ret
        THEN [ss |-> Set(ia.ss, "login_time", isoformat(t)), exc |-> "",
              msgs |-> ia.msgs]
        ELSE [ss |-> ia.ss, exc |-> ia.exc, msgs |-> ia.msgs]

(* ---------------- page guards (ui.py, decorators.py) ---------------- *)
\* protect_page that shows the login form and lets the request go on
protect_page_no_stop(ss, t) ==
    LET ss0 == IF ~Has(ss, "authenticated")
               THEN Set(ss, "authenticated", FALSE) ELSE ss
        ia == is_authenticated(ss0, t)
    IN  [ss |-> ia.ss, halted |-> FALSE, exc |-> ia.exc, msgs |-> ia.msgs,
         refreshed |-> FALSE]

\* protect_page(): halted is TRUE when st.stop() ends the request
protect_page(ss, t) ==
    LET ss0 == IF ~Has(ss, "authenticated")
               THEN Set(ss, "authenticated", FALSE) ELSE ss
        ia == is_authenticated(ss0, t)
    IN  IF ia.exc # ""
        THEN [ss |-> ia.ss, halted |-> FALSE, exc |-> ia.exc,
              msgs |-> ia.msgs, refreshed |-> FALSE]
        ELSE IF ~ia.ret
        THEN [ss |-> ia.ss, halted |-> TRUE, exc |-> "", msgs |-> ia.msgs,
              refreshed |-> FALSE]
        ELSE LET rs == refresh_session(ia.ss, t)
                 cu == get_current_user(rs.ss, t)
             IN  [ss |-> cu.ss, halted |-> FALSE, exc |-> cu.exc,
                  msgs |-> ia.msgs \o rs.msgs \o cu.msgs, refreshed |-> TRUE]

\* the wrapper of requires_auth(func)
requires_auth(ss, t) ==
    LET ia == is_authenticated(ss, t)
    IN  IF ia.exc # ""
        THEN [ss |-> ia.ss, halted |-> FALSE, exc |-> ia.exc,
              msgs |-> ia.msgs, refreshed |-> FALSE]
        ELSE IF ~ia.ret
        THEN [ss |-> ia.ss, halted |-> TRUE, exc |-> "",
              msgs |-> ia.msgs \o << Msg("error", "Authentication required", 0) >>,
              refreshed |-> FALSE]
        ELSE LET rs == refresh_session(ia.ss, t)
             IN  [ss |-> rs.ss, halted |-> FALSE, exc |-> rs.exc,
                  msgs |-> ia.msgs \o rs.msgs, refreshed |-> TRUE]

\* main.py, the top of the page script: protect_page(), then
\* get_current_user() with st.stop() when there is no user; body is TRUE
\* when the script goes on to render the page
main_page(ss, t) ==
    LET pp == protect_page(ss, t)
    IN  IF pp.exc # "" \/ pp.halted
        THEN [ss |-> pp.ss, halted |-> pp.halted, exc |-> pp.exc,
              msgs |-> pp.msgs, refreshed |-> pp.refreshed, body |-> FALSE]
        ELSE LET cu == get_current_user(pp.ss, t)
             IN  IF cu.exc # ""
                 THEN [ss |-> cu.ss, halted |-> FALSE, exc |-> cu.exc,
                       msgs |-> pp.msgs \o cu.msgs, refreshed |-> TRUE,
                       body |-> FALSE]
                 ELSE IF ~cu.found
                 THEN [ss |-> cu.ss, halted |-> TRUE, exc |-> "",
                       msgs |-> pp.msgs \o cu.msgs
                                \o << Msg("error", "Authentication error", 0) >>,
                       refreshed |-> TRUE, body |-> FALSE]
                 ELSE [ss |-> cu.ss, halted |-> FALSE, exc |-> "",
                       msgs |-> pp.msgs \o cu.msgs, refreshed |-> TRUE,
                       body |-> TRUE]

(* ---------------- roles and permissions (models.py, decorators.py) ---- *)
\* the values of class UserRole
UserRole == {"admin", "manager", "sales", "supply_chain", "viewer"}

\* what the role column of a row may hold: a UserRole value or any other
\* string (nothing checks it against the enumeration)
StoredRoles == UserRole \cup {"intern"}

\* the keys of the permissions dictionary of check_permission
PermissionKeys ==
    {"view_all_data", "export_data", "manage_users", "view_costs",
     "edit_settings"}

\* a permissions dictionary in which manage_users is open to managers
permissions_manager_manages(permission) ==
    CASE permission = "view_all_data" -> {"admin", "manager"}
      [] permission = "export_data" ->
             {"admin", "manager", "sales", "supply_chain"}
      [] permission = "manage_users" -> {"admin", "manager"}
      [] permission = "view_costs" -> {"admin", "manager", "supply_chain"}
      [] permission = "edit_settings" -> {"admin"}
      [] OTHER -> {}

\* permissions.get(permission, [])
permissions(permission) ==
    CASE permission = "view_all_data" -> {"admin", "manager"}
      [] permission = "export_data" ->
             {"admin", "manager", "sales", "supply_chain"}
      [] permission = "manage_users" -> {"admin"}
      [] permission = "view_costs" -> {"admin", "manager", "supply_chain"}
      [] permission = "edit_settings" -> {"admin"}
      [] OTHER -> {}

\* has_any_role that finds every role in every list
has_any_role_always(user, roles) == TRUE

\* User.has_any_role(roles)
has_any_role(user, roles) == user.role \in roles

\* User.is_admin
is_admin(user) == user.role = "admin"

\* User.is_manager
is_manager(user) == user.role = "manager"

\* User.can_view_all_data
can_view_all_data(user) == user.role \in {"admin", "manager"}

\* can_export_data that every role has
can_export_data_everyone(user) == TRUE

\* User.can_export_data
can_export_data(user) == user.role # "viewer"

\* check_permission(permission)
check_permission(ss, permission, t) ==
    LET cu == get_current_user(ss, t)
    IN  IF cu.exc # ""
        THEN [ss |-> cu.ss, ret |-> FALSE, exc |-> cu.exc, msgs |-> cu.msgs]
        ELSE IF ~cu.found
        THEN [ss |-> cu.ss, ret |-> FALSE, exc |-> "", msgs |-> cu.msgs]
        ELSE [ss |-> cu.ss,
              ret |-> has_any_role(cu.user, permissions(permission)),
              exc |-> "", msgs |-> cu.msgs]

\* the wrapper of requires_role(allowed_roles)(func): halted is TRUE when
\* st.stop() ends the request, denied when it does so with 'Access Denied';
\* func is called exactly when neither halted nor an exception ended it
requires_role(ss, allowed_roles, t) ==
    LET ia == is_authenticated(ss, t)
    IN  IF ia.exc # ""
        THEN [ss |-> ia.ss, halted |-> FALSE, denied |-> FALSE,
              exc |-> ia.exc, msgs |-> ia.msgs, refreshed |-> FALSE]
        ELSE IF ~ia.ret
        THEN [ss |-> ia.ss, halted |-> TRUE, denied |-> FALSE, exc |-> "",
              msgs |-> ia.msgs \o << Msg("error", "Authentication required", 0) >>,
              refreshed |-> FALSE]
        ELSE LET cu == get_current_user(ia.ss, t)
             IN  IF cu.exc # ""
                 THEN [ss |-> cu.ss, halted |-> FALSE, denied |-> FALSE,
                       exc |-> cu.exc, msgs |-> ia.msgs \o cu.msgs,
                       refreshed |-> FALSE]
                 ELSE IF ~cu.found \/ ~has_any_role(cu.user, allowed_roles)
                 THEN [ss |-> cu.ss, halted |-> TRUE, denied |-> TRUE,
                       exc |-> "",
                       msgs |-> ia.msgs \o cu.msgs
                                \o << Msg("error", "Access Denied", 0) >>,
                       refreshed |-> FALSE]
                 ELSE LET rs == refresh_session(cu.ss, t)
                      IN  [ss |-> rs.ss, halted |-> FALSE, denied |-> FALSE,
                           exc |-> rs.exc,
                           msgs |-> ia.msgs \o cu.msgs \o rs.msgs,
                           refreshed |-> TRUE]

\* the wrapper of requires_admin(func)
requires_admin(ss, t) == requires_role(ss, {"admin"}, t)

\* the wrapper of requires_manager_or_above(func)
requires_manager_or_above(ss, t) == requires_role(ss, {"admin", "manager"}, t)

(* ---------------- the store (database.py) ---------------- *)
\* DatabaseManager.__init__: self._connection_retries = 3
connection_retries == 3
\* DatabaseManager.__init__: self._retry_delay = 1 (seconds)
retry_delay == 1

\* the statements sent to the store and the errors an attempt may end in
Statements == {"SELECT credentials", "SELECT profile"}
StoreErrors == {"OperationalError", "InterfaceError", "TimeoutError"}

\* no execute_query call has been made
IdleQuery ==
    [pc |-> "idle", sql |-> "", attempt |-> 0, errors |-> << >>,
     slept |-> << >>, exc |-> ""]

\* a backoff of the same length after every failed attempt
backoff_constant(attempt) == retry_delay

\* time.sleep(self._retry_delay * (attempt + 1))
backoff(attempt) == retry_delay * (attempt + 1)

(* ---------------- state machine ---------------- *)
Bool(b) == IF b THEN "True" ELSE "False"

\* the record of the call just made: the handler, the session it ran in,
\* its username and password arguments, what it returned ("True", "False",
\* "User", "None", "halt", "pass", "" for no value), the text of the
\* exception that was raised in it ("" for none), and how many failed
\* attempts were on record for the username when it was made
Called(op, s, username, password, ret, exc, before) ==
    [op |-> op, s |-> s, username |-> username, password |-> password,
     ret |-> ret, exc |-> exc, before |-> before]

Call(op, s, username, ret, exc) == Called(op, s, username, "", ret, exc, 0)

Env(op) == Call(op, "", "", "", "")

\* activity[s] records, since the last successful login of session s (on)
\* and until its logout: login_at, the time of the login; last_call, the
\* time of the login or of the latest refresh_session call; refreshed,
\* whether refresh_session was called at all; kept, whether every interval
\* between these calls was at most session_timeout - 1 (the times are no
\* longer kept once it was not)
NoActivity ==
    [on |-> FALSE, login_at |-> 0, last_call |-> 0, kept |-> FALSE,
     refreshed |-> FALSE]

LoggedIn(t) ==
    [on |-> TRUE, login_at |-> t, last_call |-> t, kept |-> TRUE,
     refreshed |-> FALSE]

\* refresh_session was called at time t
Refreshed(act, t) ==
    IF act.on
    THEN IF act.kept /\ t - act.last_call <= session_timeout - 1
         THEN [act EXCEPT !.last_call = t, !.refreshed = TRUE]
         ELSE [act EXCEPT !.last_call = 0, !.login_at = 0, !.kept = FALSE,
                          !.refreshed = TRUE]
    ELSE act

\* what the store does during one login: <<the credential query returned,
\* the last_login UPDATE went through, the profile query returned>>
StoreOutcomes ==
    {<<TRUE, TRUE, TRUE>>, <<FALSE, TRUE, TRUE>>, <<TRUE, FALSE, TRUE>>,
     <<TRUE, TRUE, FALSE>>, <<TRUE, FALSE, FALSE>>}

\* secrets.token_hex(32) is drawn only when the stored salt is empty
SaltChoices(tbl, username) ==
    IF username \in DOMAIN tbl /\ tbl[username].password_salt = ""
    THEN TokenHex ELSE {"r1"}

Init ==
    /\ session_state = [s \in Sessions |-> EmptyDict]
    /\ users = InitUsers
    /\ activity = [s \in Sessions |-> NoActivity]
    /\ last = Env("init")
    /\ query = IdleQuery

\* the session dictionary one unit of time later
AgedDict(ss) ==
    [k \in DOMAIN ss |->
        IF k = "login_time" THEN Aged(ss[k])
        ELSE IF k \in {FailedKey(u) : u \in Usernames}
        THEN [i \in 1..Len(ss[k]) |-> Aged(ss[k][i])]
        ELSE ss[k]]

\* one unit of time passes
Tick ==
    /\ session_state' = [s \in Sessions |-> AgedDict(session_state[s])]
    /\ activity' = [s \in Sessions |->
                        IF activity[s].on /\ activity[s].kept
                        THEN [activity[s] EXCEPT !.last_call = Older(@),
                                                 !.login_at = Older(@)]
                        ELSE activity[s]]
    /\ UNCHANGED query
    /\ last' = Env("tick")
    /\ UNCHANGED users

\* an administrator activates or deactivates an account in the users table
AdminSetActive ==
    \E u \in DOMAIN users :
        /\ users' = [users EXCEPT ![u].is_active = ~users[u].is_active]
        /\ UNCHANGED query
        /\ last' = Env("admin")
        /\ UNCHANGED <<session_state, activity>>

\* an administrator soft-deletes or restores an account
AdminSetDeleted ==
    \E u \in DOMAIN users :
        /\ users' = [users EXCEPT ![u].delete_flag = 1 - users[u].delete_flag]
        /\ UNCHANGED query
        /\ last' = Env("admin")
        /\ UNCHANGED <<session_state, activity>>

\* Login with one failed-attempt log per username shared by all sessions
Login_shared_log(s) ==
    \E username \in Usernames, password \in Passwords,
       store \in StoreOutcomes :
      \E rnd \in SaltChoices(users, username) :
        LET r == login(session_state[s], users, username, password, now,
                       store[1], store[2], store[3], rnd)
            key == FailedKey(username)
        IN  /\ session_state' =
                 [o \in Sessions |->
                    IF o = s THEN r.ss
                    ELSE IF Has(r.ss, key)
                    THEN Set(session_state[o], key, r.ss[key])
                    ELSE Del(session_state[o], key)]
            /\ activity' = IF r.ret
                           THEN [activity EXCEPT ![s] = LoggedIn(now)]
                           ELSE activity
            /\ UNCHANGED query
            /\ last' = Called("login", s, username, password, Bool(r.ret),
                              r.exc, Len(Attempts(session_state[s], username)))
            /\ UNCHANGED users

Login(s) ==
    \E username \in Usernames, password \in Passwords,
       store \in StoreOutcomes :
      \E rnd \in SaltChoices(users, username) :
        LET r == login(session_state[s], users, username, password, now,
                       store[1], store[2], store[3], rnd)
        IN  /\ session_state' = [session_state EXCEPT ![s] = r.ss]
            /\ activity' = IF r.ret
                           THEN [activity EXCEPT ![s] = LoggedIn(now)]
                           ELSE activity
            /\ UNCHANGED query
            /\ last' = Called("login", s, username, password, Bool(r.ret),
                              r.exc, Len(Attempts(session_state[s], username)))
            /\ UNCHANGED users

Logout(s) ==
    /\ session_state' = [session_state EXCEPT ![s] = logout(session_state[s])]
    /\ activity' = [activity EXCEPT ![s] = NoActivity]
    /\ UNCHANGED query
    /\ last' = Call("logout", s, "", "", "")
    /\ UNCHANGED users

IsAuthenticated(s) ==
    LET r == is_authenticated(session_state[s], now)
    IN  /\ session_state' = [session_state EXCEPT ![s] = r.ss]
        /\ UNCHANGED query
        /\ last' = Call("is_authenticated", s, "",
                         IF r.exc # "" THEN "" ELSE Bool(r.ret), r.exc)
        /\ UNCHANGED <<users, activity>>

GetCurrentUser(s) ==
    LET r == get_current_user(session_state[s], now)
    IN  /\ session_state' = [session_state EXCEPT ![s] = r.ss]
        /\ UNCHANGED query
        /\ last' = Call("get_current_user", s,
                         IF r.found THEN r.user.username ELSE "",
                         IF r.exc # "" THEN ""
                         ELSE IF r.found THEN "User" ELSE "None", r.exc)
        /\ UNCHANGED <<users, activity>>

RefreshSession(s) ==
    LET r == refresh_session(session_state[s], now)
    IN  /\ session_state' = [session_state EXCEPT ![s] = r.ss]
        /\ activity' = [activity EXCEPT ![s] = Refreshed(activity[s], now)]
        /\ UNCHANGED query
        /\ last' = Call("refresh_session", s, "", "", r.exc)
        /\ UNCHANGED users

IsAccountLocked(s) ==
    \E username \in Usernames :
        LET r == is_account_locked(session_state[s], username, now)
        IN  /\ session_state' = [session_state EXCEPT ![s] = r.ss]
            /\ UNCHANGED query
            /\ last' = Called("is_account_locked", s, username, "",
                               IF r.exc # "" THEN "" ELSE Bool(r.ret), r.exc,
                               Len(Attempts(session_state[s], username)))
            /\ UNCHANGED <<users, activity>>

ProtectPage(s) ==
    LET r == protect_page(session_state[s], now)
    IN  /\ session_state' = [session_state EXCEPT ![s] = r.ss]
        /\ activity' = IF r.refreshed
                       THEN [activity EXCEPT ![s] = Refreshed(activity[s], now)]
                       ELSE activity
        /\ UNCHANGED query
        /\ last' = Call("protect_page", s, "",
                         IF r.exc # "" THEN ""
                         ELSE IF r.halted THEN "halt" ELSE "pass", r.exc)
        /\ UNCHANGED users

RequiresAuth(s) ==
    LET r == requires_auth(session_state[s], now)
    IN  /\ session_state' = [session_state EXCEPT ![s] = r.ss]
        /\ activity' = IF r.refreshed
                       THEN [activity EXCEPT ![s] = Refreshed(activity[s], now)]
                       ELSE activity
        /\ UNCHANGED query
        /\ last' = Call("requires_auth", s, "",
                         IF r.exc # "" THEN ""
                         ELSE IF r.halted THEN "halt" ELSE "pass", r.exc)
        /\ UNCHANGED users

\* the permission names asked for: every key of the dictionary and one
\* name that is no key
PermissionNames == PermissionKeys \cup {"delete_everything"}

CheckPermission(s) ==
    \E permission \in PermissionNames :
        LET r == check_permission(session_state[s], permission, now)
        IN  /\ session_state' = [session_state EXCEPT ![s] = r.ss]
            /\ UNCHANGED query
            /\ last' = Call("check_permission", s, "",
                             IF r.exc # "" THEN "" ELSE Bool(r.ret), r.exc)
            /\ UNCHANGED <<users, activity>>

\* the role lists functions are wrapped with: those of requires_admin and
\* requires_manager_or_above, and one without admin
RoleLists == {{"admin"}, {"admin", "manager"}, {"manager", "sales"}}

RequiresRole(s) ==
    \E allowed_roles \in RoleLists :
        LET r == requires_role(session_state[s], allowed_roles, now)
        IN  /\ session_state' = [session_state EXCEPT ![s] = r.ss]
            /\ activity' = IF r.refreshed
                           THEN [activity EXCEPT ![s] = Refreshed(activity[s], now)]
                           ELSE activity
            /\ UNCHANGED query
            /\ last' = Call("requires_role", s, "",
                             IF r.exc # "" THEN ""
                             ELSE IF r.denied THEN "deny"
                             ELSE IF r.halted THEN "halt" ELSE "pass", r.exc)
            /\ UNCHANGED users

\* execute_query(query, params) is called: the loop starts at attempt 0.
\* query.errors are the errors of the attempts made so far, query.slept the
\* lengths of the sleeps taken so far.
ExecuteQuery ==
    /\ query.pc \in {"idle", "returned", "raised"}
    /\ \E sql \in Statements :
          query' = [pc |-> "try", sql |-> sql, attempt |-> 0,
                    errors |-> << >>, slept |-> << >>, exc |-> ""]
    /\ last' = Env("query")
    /\ UNCHANGED <<session_state, users, activity>>

\* one pass of `for attempt in range(self._connection_retries)`: the
\* attempt returns the DataFrame, or fails with an error that is kept as
\* last_error; after the last failed attempt the loop ends and last_error
\* is raised
QueryAttempt ==
    /\ query.pc = "try"
    /\ query.attempt < connection_retries
    /\ \/ query' = [query EXCEPT !.pc = "returned"]
       \/ \E err \in StoreErrors :
            query' = [query EXCEPT
                        !.errors = Append(@, err),
                        !.pc = IF query.attempt < connection_retries - 1
                               THEN "sleep" ELSE "raised",
                        !.exc = IF query.attempt < connection_retries - 1
                                THEN "" ELSE err]
    /\ last' = Env("query")
    /\ UNCHANGED <<session_state, users, activity>>

\* time.sleep(...) after a failed attempt that is not the last, then the
\* next pass of the loop
QuerySleep ==
    /\ query.pc = "sleep"
    /\ query' = [query EXCEPT !.slept = Append(@, backoff(query.attempt)),
                              !.attempt = @ + 1,
                              !.pc = "try"]
    /\ last' = Env("query")
    /\ UNCHANGED <<session_state, users, activity>>

\* the stored login_time is overwritten by a value that is not a timestamp
CorruptLoginTime(s) ==
    /\ Get(session_state[s], "authenticated", FALSE)
    /\ Has(session_state[s], "login_time")
    /\ session_state' = [session_state EXCEPT
                            ![s] = Set(session_state[s], "login_time", Malformed)]
    /\ UNCHANGED query
    /\ last' = Env("corrupt")
    /\ UNCHANGED <<users, activity>>

\* the newest stored failed attempt is overwritten by a value that is not
\* a timestamp
CorruptAttempt(s) ==
    \E username \in Usernames :
        LET a == Attempts(session_state[s], username)
        IN  /\ a # << >>
            /\ session_state' = [session_state EXCEPT ![s] =
                    Set(session_state[s], FailedKey(username),
                        [a EXCEPT ![Len(a)] = Malformed])]
            /\ UNCHANGED query
            /\ last' = Env("corrupt")
            /\ UNCHANGED <<users, activity>>

\* the sessions served in the single-session specifications
MainSessions == {"A"}

Next ==
    \/ Tick
    \/ AdminSetActive
    \/ AdminSetDeleted
    \/ \E s \in MainSessions : Login(s)
    \/ \E s \in MainSessions : Logout(s)
    \/ \E s \in MainSessions : IsAuthenticated(s)
    \/ \E s \in MainSessions : GetCurrentUser(s)
    \/ \E s \in MainSessions : RefreshSession(s)
    \/ \E s \in MainSessions : IsAccountLocked(s)
    \/ \E s \in MainSessions : ProtectPage(s)
    \/ \E s \in MainSessions : RequiresAuth(s)

Spec == Init /\ [][Next]_vars

\* the same machine with the role gate and the permission check
NextAll ==
    \/ Next
    \/ \E s \in MainSessions : RequiresRole(s)
    \/ \E s \in MainSessions : CheckPermission(s)

SpecAll == Init /\ [][NextAll]_vars

\* the session handlers of one session on a session store whose login_time
\* may be overwritten
NextCorruptSession ==
    \/ Tick
    \/ \E s \in MainSessions : Login(s)
    \/ \E s \in MainSessions : Logout(s)
    \/ \E s \in MainSessions : IsAuthenticated(s)
    \/ \E s \in MainSessions : GetCurrentUser(s)
    \/ \E s \in MainSessions : RefreshSession(s)
    \/ \E s \in MainSessions : ProtectPage(s)
    \/ \E s \in MainSessions : RequiresAuth(s)
    \/ \E s \in MainSessions : CorruptLoginTime(s)

SpecCorruptSession == Init /\ [][NextCorruptSession]_vars

\* logins and lock checks of one session, for an account that may be
\* deactivated, on a session store whose failed-attempt entries may be
\* overwritten
NextCorruptLog ==
    \/ Tick
    \/ AdminSetActive
    \/ \E s \in MainSessions : Login(s)
    \/ \E s \in MainSessions : IsAccountLocked(s)
    \/ \E s \in MainSessions : CorruptAttempt(s)

SpecCorruptLog == Init /\ [][NextCorruptLog]_vars

\* the users table with every role the column may hold
InitAccess ==
    /\ session_state = [s \in Sessions |-> EmptyDict]
    /\ users \in {[u \in Usernames |-> [InitUsers[u] EXCEPT !.role = r]] :
                     r \in StoredRoles}
    /\ activity = [s \in Sessions |-> NoActivity]
    /\ last = Env("init")
    /\ query = IdleQuery

\* logins, logouts and role-gated requests of one session over time, for
\* an account of any role
NextAccess ==
    \/ Tick
    \/ \E s \in MainSessions : Login(s)
    \/ \E s \in MainSessions : Logout(s)
    \/ \E s \in MainSessions : RequiresRole(s)
    \/ \E s \in MainSessions : CheckPermission(s)

SpecAccess == InitAccess /\ [][NextAccess]_vars

\* requests of the two browser sessions, interleaved in any order.  The
\* clock stands still here: what a handler does as time passes is the same
\* in every session and is covered by the single-session machine.
NextTwo ==
    \/ \E s \in Sessions : Login(s)
    \/ \E s \in Sessions : Logout(s)
    \/ \E s \in Sessions : IsAuthenticated(s)
    \/ \E s \in Sessions : IsAccountLocked(s)
    \/ \E s \in Sessions : ProtectPage(s)

SpecTwo == Init /\ [][NextTwo]_vars

\* the salts a credential is made with: none (the column is then null or
\* empty, and authenticate passes '') or a stored one
Salts == {"", "s1"}

\* the credential columns of a row made by hash_password(password, salt),
\* the salt column holding the salt that was given
Credential(row, password, salt, rnd) ==
    [row EXCEPT !.password_hash = hash_password(password, salt, rnd).hash,
                !.password_salt = salt]

\* the users table with a credential of either kind
InitHash ==
    /\ session_state = [s \in Sessions |-> EmptyDict]
    /\ users \in {[u \in Usernames |-> Credential(InitUsers[u], "pw1", salt, rnd)] :
                     salt \in Salts, rnd \in TokenHex}
    /\ activity = [s \in Sessions |-> NoActivity]
    /\ last = Env("init")
    /\ query = IdleQuery

\* the administration sets the password of an account
SetPassword ==
    \E u \in DOMAIN users, password \in Passwords, salt \in Salts,
       rnd \in TokenHex :
        /\ users' = [users EXCEPT ![u] = Credential(users[u], password, salt, rnd)]
        /\ UNCHANGED query
        /\ last' = Env("admin")
        /\ UNCHANGED <<session_state, activity>>

\* passwords being set and verified by logins
NextHash ==
    \/ SetPassword
    \/ \E s \in MainSessions : Login(s)
    \/ \E s \in MainSessions : Logout(s)

SpecHash == InitHash /\ [][NextHash]_vars

\* execute_query calls, one after the other
NextQuery ==
    \/ ExecuteQuery
    \/ QueryAttempt
    \/ QuerySleep

\* a call that has started goes on: the attempt and the sleep are blocking
\* calls of one thread that nothing preempts for ever
SpecQuery ==
    Init /\ [][NextQuery]_vars /\ WF_vars(QueryAttempt) /\ WF_vars(QuerySleep)

(***************************************************************************)
(* Properties                                                              *)
(***************************************************************************)
\* every input a login call can be given
LoginInputs == Usernames \X Passwords \X StoreOutcomes \X TokenHex

\* login(...) called in session s of the current state with input i
LoginOf(s, i) ==
    login(session_state[s], users, i[1], i[2], now, i[3][1], i[3][2],
          i[3][3], i[4])

\* the three session keys of a dictionary
SessionPart(ss) == [k \in DOMAIN ss \cap SessionKeys |-> ss[k]]

\* at least max_attempts failures are on record for the username and less
\* than lockout_duration has passed since the newest of them
LockoutInForce(ss, username) ==
    LET a == Attempts(ss, username)
    IN  /\ Len(a) >= max_attempts
        /\ now - fromisoformat(a[Len(a)]) < lockout_duration

\* the row of the username is there, active, and the password is its own
GoodCredentials(username, password) ==
    /\ SelectUser(users, username) # << >>
    /\ users[username].is_active
    /\ users[username].password_hash
         = sha256(password \o users[username].password_salt)

\* C1: while max_attempts failures are on record for a username and the
\* lockout that the newest of them started has not ended, every login call
\* for that username, whatever the password and whatever the store would
\* do, returns false with the 'account locked' error, issues no store query
\* and leaves the session dictionary as it was (no session is established).
C1_LockedLoginRejected ==
    \A s \in MainSessions : \A i \in LoginInputs :
        LockoutInForce(session_state[s], i[1]) =>
            LET r == LoginOf(s, i)
            IN  /\ r.ret = FALSE
                /\ r.raised = FALSE
                /\ r.exc = LockedText
                /\ r.queries = 0
                /\ r.wrote = FALSE
                /\ r.ss = session_state[s]

\* C1, the call made: a login with the right password of an active account
\* was rejected as locked, and the session is not authenticated
C1_Witness ==
    /\ last.op = "login"
    /\ last.exc = LockedText
    /\ last.ret = "False"
    /\ GoodCredentials(last.username, last.password)
    /\ LockoutInForce(session_state[last.s], last.username)
    /\ ~Get(session_state[last.s], "authenticated", FALSE)

\* C2: in every reachable state, a login for a username whose credential
\* record has the active flag false returns false and leaves the session
\* keys (the authenticated flag among them) as they were, whatever the
\* password and whatever the store does.
C2_InactiveNeverAuthenticates ==
    \A s \in MainSessions : \A i \in LoginInputs :
        (i[1] \in DOMAIN users /\ ~users[i[1]].is_active) =>
            LET r == LoginOf(s, i)
            IN  /\ r.ret = FALSE
                /\ SessionPart(r.ss) = SessionPart(session_state[s])
                /\ (last.op = "login" /\ last.username = i[1]
                      => last.ret = "False")

\* C2, the call made: a login with the account's own password was refused
\* because the account is deactivated
C2_Witness ==
    /\ last.op = "login"
    /\ last.ret = "False"
    /\ last.exc = DeactivatedText
    /\ SelectUser(users, last.username) # << >>
    /\ ~users[last.username].is_active
    /\ users[last.username].password_hash
         = sha256(last.password \o users[last.username].password_salt)
    /\ ~Get(session_state[last.s], "authenticated", FALSE)

\* the session dictionary holds a session whose login_time is a timestamp
LiveKeys(ss) ==
    /\ Get(ss, "authenticated", FALSE)
    /\ Has(ss, "login_time")
    /\ IsIso(ss["login_time"])

\* C3: is_authenticated returns true right after a successful login; on a
\* session with a login_time it returns true as long as now - login_time <=
\* session_timeout (equality included) and changes nothing; once now -
\* login_time > session_timeout it returns false and removes user,
\* authenticated and login_time, with no logout needed.
C3_TimeoutCheck ==
    \A s \in MainSessions :
        LET ss == session_state[s]
            r == is_authenticated(ss, now)
        IN  /\ (last.op = "login" /\ last.s = s /\ last.ret = "True")
                => (r.ret = TRUE /\ r.exc = "" /\ r.ss = ss)
            /\ LiveKeys(ss) =>
                IF now - fromisoformat(ss["login_time"]) > session_timeout
                THEN /\ r.ret = FALSE
                     /\ r.exc = ""
                     /\ DOMAIN r.ss \cap SessionKeys = {}
                ELSE /\ r.ret = TRUE
                     /\ r.exc = ""
                     /\ r.ss = ss

\* C3, the call made: is_authenticated returned false on a session that was
\* logged in and never logged out, and the three keys are gone
C3_Witness ==
    /\ last.op = "is_authenticated"
    /\ last.ret = "False"
    /\ activity[last.s].on
    /\ DOMAIN session_state[last.s] \cap SessionKeys = {}

\* C4: the timeout is an idle timeout.  As long as every interval between
\* the login and the refresh_session calls made since was at most
\* session_timeout - 1, and at most that much time has passed since the
\* latest of them, is_authenticated returns true, however long ago the
\* login was.  If refresh_session was never called since the login,
\* is_authenticated returns true until session_timeout has passed since the
\* login and false from then on.
C4_IdleTimeout ==
    \A s \in MainSessions :
        LET act == activity[s]
            r == is_authenticated(session_state[s], now)
        IN  /\ (act.on /\ act.kept /\ now - act.last_call <= session_timeout - 1)
                => (r.ret = TRUE /\ r.exc = "")
            /\ (act.on /\ ~act.refreshed)
                => (r.ret = (now - act.login_at <= session_timeout))

\* C4, the call made: is_authenticated returned true on a session whose
\* login is more than session_timeout ago and that was refreshed in time
C4_Witness ==
    /\ last.op = "is_authenticated"
    /\ last.ret = "True"
    /\ activity[last.s].on
    /\ activity[last.s].kept
    /\ activity[last.s].refreshed
    /\ now - activity[last.s].login_at > session_timeout

\* the dictionary after n more failed attempts of the username, made now
RECURSIVE FailTimes(_, _, _)
FailTimes(ss, username, n) ==
    IF n = 0 THEN ss
    ELSE record_failed_attempt(FailTimes(ss, username, n - 1), username, now).ss

\* C5: when authenticate finds the account unlocked, the credential query
\* returns, the row is active and the password verifies, the session holds
\* no failed attempt for that username afterwards (whatever the later store
\* calls do), and it then takes max_attempts further failures, no fewer, to
\* lock the username.
C5_SuccessClearsFailures ==
    /\ (last.op = "login" /\ last.ret = "True")
          => Attempts(session_state[last.s], last.username) = << >>
    /\ \A s \in MainSessions : \A i \in LoginInputs :
        LET ss == session_state[s]
            u == i[1]
            a == authenticate(ss, users, u, i[2], now, i[3][1], i[3][2],
                              i[3][3], i[4])
        IN  (GoodCredentials(u, i[2]) /\ i[3][1] /\ ~LockoutInForce(ss, u)) =>
                /\ a.ret # "raise"
                /\ Attempts(a.ss, u) = << >>
                /\ \A n \in 0..(max_attempts - 1) :
                       ~is_account_locked(FailTimes(a.ss, u, n), u, now).ret
                /\ is_account_locked(FailTimes(a.ss, u, max_attempts), u, now).ret

\* C5, the call made: a login succeeded for a username that had failed
\* attempts on record, and none is left
C5_Witness ==
    /\ last.op = "login"
    /\ last.ret = "True"
    /\ last.before > 0
    /\ Attempts(session_state[last.s], last.username) = << >>

\* max_attempts failures are on record for the username and
\* lockout_duration or more has passed since the newest of them
LockoutElapsed(ss, username) ==
    LET a == Attempts(ss, username)
    IN  /\ Len(a) >= max_attempts
        /\ now - fromisoformat(a[Len(a)]) >= lockout_duration

\* C6: once lockout_duration has passed since the newest failure of a
\* locked username, is_account_locked returns false and the same call
\* empties the username's log; an authenticate made then is not refused as
\* locked, reaches the credential query, and a failure it records is the
\* only entry of the log.
C6_LockoutEnds ==
    \A s \in MainSessions : \A i \in LoginInputs :
        LET ss == session_state[s]
            u == i[1]
            r == is_account_locked(ss, u, now)
            a == authenticate(ss, users, u, i[2], now, i[3][1], i[3][2],
                              i[3][3], i[4])
        IN  LockoutElapsed(ss, u) =>
                /\ r.ret = FALSE
                /\ r.exc = ""
                /\ Attempts(r.ss, u) = << >>
                /\ a.exc # LockedText
                /\ a.queries >= 1
                /\ Attempts(a.ss, u) \in {<< >>, << isoformat(now) >>}

\* C6, the call made: is_account_locked returned false for a username that
\* had max_attempts failures on record, and its log is empty
C6_Witness ==
    /\ last.op = "is_account_locked"
    /\ last.ret = "False"
    /\ last.before >= max_attempts
    /\ Attempts(session_state[last.s], last.username) = << >>

\* the users table in which the username is unknown / known and active
UnknownTable(username) == [users EXCEPT ![username].delete_flag = 1]
KnownTable(username) ==
    [users EXCEPT ![username].delete_flag = 0, ![username].is_active = TRUE]

\* the log of the username as a failed attempt made now leaves it: the
\* entries the lock check and the pruning keep, then the new one
AfterFailure(ss, username) ==
    LET old == Attempts(is_account_locked(ss, username, now).ss, username)
    IN  Append(SelectSeq(old, LAMBDA a : Recent(a, now - lockout_duration)),
               isoformat(now))

\* C7: from every reachable session state, a login with a password that is
\* not the account's has the same outcome whether the username is unknown
\* or known and active: the same return value, error, messages, store
\* queries and session dictionary.  When the username is not locked and the
\* store answers, that outcome is: false with no error, one message (a
\* warning with the remaining attempts, or the lockout notice), exactly one
\* failed attempt appended to the username's log, and the username locked
\* as soon as the log holds max_attempts entries.
C7_UnknownLikeWrongPassword ==
    \A s \in MainSessions : \A i \in LoginInputs :
        LET ss == session_state[s]
            u == i[1]
            x == login(ss, UnknownTable(u), u, i[2], now, i[3][1], i[3][2],
                       i[3][3], i[4])
            y == login(ss, KnownTable(u), u, i[2], now, i[3][1], i[3][2],
                       i[3][3], i[4])
        IN  users[u].password_hash
                # sha256(i[2] \o users[u].password_salt) =>
                /\ x = y
                /\ (i[3][1] /\ ~LockoutInForce(ss, u)) =>
                    /\ x.ret = FALSE
                    /\ x.exc = ""
                    /\ Len(x.msgs) = 1
                    /\ x.msgs[1].text \in {"Invalid credentials", "Account locked"}
                    /\ Attempts(x.ss, u) = AfterFailure(ss, u)
                    /\ (x.msgs[1].text = "Account locked"
                          <=> is_account_locked(x.ss, u, now).ret)

\* C7, the call made: a login for an unknown username failed as "no match",
\* was recorded, and its failure is the one that locked the username
C7_Witness ==
    /\ last.op = "login"
    /\ last.ret = "False"
    /\ last.exc = ""
    /\ SelectUser(users, last.username) = << >>
    /\ last.before = max_attempts - 1
    /\ LockoutInForce(session_state[last.s], last.username)

\* the row of the username is there and deactivated, the store answers the
\* credential query, and the username is not locked
DeactivatedUnlocked(ss, username, credOk) ==
    /\ credOk
    /\ SelectUser(users, username) # << >>
    /\ ~users[username].is_active
    /\ ~LockoutInForce(ss, username)

\* C8 as stated: a login for a deactivated, unlocked account fails with the
\* 'account deactivated' error whatever the password, and the failed-attempt
\* log of the username is unchanged by the call.
C8_DeactivatedLogUnchanged ==
    \A s \in MainSessions : \A i \in LoginInputs :
        LET ss == session_state[s]
            r == LoginOf(s, i)
        IN  DeactivatedUnlocked(ss, i[1], i[3][1]) =>
                /\ r.ret = FALSE
                /\ r.exc = DeactivatedText
                /\ Attempts(r.ss, i[1]) = Attempts(ss, i[1])

\* C8 amended: a login for a deactivated, unlocked account fails with the
\* 'account deactivated' error whatever the password, shown as that error,
\* and is not counted as a failed attempt: nothing is appended to the log
\* of the username, which is unchanged unless it held max_attempts or more
\* entries of a lockout that has expired, which the lock check of the same
\* call empties.
C8_DeactivatedNotCounted ==
    \A s \in MainSessions : \A i \in LoginInputs :
        LET ss == session_state[s]
            r == LoginOf(s, i)
        IN  DeactivatedUnlocked(ss, i[1], i[3][1]) =>
                /\ r.ret = FALSE
                /\ r.exc = DeactivatedText
                /\ r.msgs = << Msg("error", DeactivatedText, 0) >>
                /\ Attempts(r.ss, i[1]) =
                       IF LockoutElapsed(ss, i[1]) THEN << >>
                       ELSE Attempts(ss, i[1])

\* C8, the call made: a login with the account's own password failed as
\* 'account deactivated' and the failures on record are as many as before
C8_Witness ==
    /\ last.op = "login"
    /\ last.exc = DeactivatedText
    /\ users[last.username].password_hash
         = sha256(last.password \o users[last.username].password_salt)
    /\ last.before > 0
    /\ Len(Attempts(session_state[last.s], last.username)) = last.before

CorruptSession(ss) ==
    /\ Get(ss, "authenticated", FALSE)
    /\ Has(ss, "login_time")
    /\ ~IsIso(ss["login_time"])

\* C10: on a session flagged authenticated whose stored login_time is not a
\* parseable timestamp, is_authenticated, get_current_user and the page
\* guards raise nothing and treat the session as unauthenticated.
C10_CorruptionDegrades ==
    (/\ last.op \in {"is_authenticated", "get_current_user", "protect_page",
                     "requires_auth"}
     /\ CorruptSession(session_state[last.s]))
        => (last.exc = "" /\ last.ret \in {"False", "None", "halt"})

\* the session is authenticated and its timeout has not passed
LiveSession(ss) ==
    /\ LiveKeys(ss)
    /\ now - fromisoformat(ss["login_time"]) <= session_timeout
    /\ Has(ss, "user")

\* the static role set of each permission name as the specification lists
\* them
StaticRoleSet(name) ==
    CASE name = "view_all_data" -> {"admin", "manager"}
      [] name = "export_data" -> {"admin", "manager", "sales", "supply_chain"}
      [] name = "manage_users" -> {"admin"}
      [] name = "view_costs" -> {"admin", "manager", "supply_chain"}
      [] name = "edit_settings" -> {"admin"}

\* C11: check_permission(name) is true exactly when the session is
\* authenticated and not expired and the role of its user is in the static
\* role set of name; a name that is no permission is false for every role,
\* an unauthenticated session is false for every name, and manage_users is
\* true only for admin.
C11_CheckPermission ==
    \A s \in MainSessions : \A name \in PermissionNames :
        LET ss == session_state[s]
            r == check_permission(ss, name, now)
        IN  /\ r.exc = ""
            /\ name \in PermissionKeys =>
                 (r.ret <=> (LiveSession(ss)
                             /\ ss["user"].role \in StaticRoleSet(name)))
            /\ name \notin PermissionKeys => ~r.ret
            /\ ~LiveSession(ss) => ~r.ret
            /\ (name = "manage_users" /\ r.ret) => ss["user"].role = "admin"

\* C11, the call made: a permission was granted to a user who is no admin
C11_Witness ==
    /\ last.op = "check_permission"
    /\ last.ret = "True"
    /\ LiveSession(session_state[last.s])
    /\ session_state[last.s]["user"].role = "supply_chain"

\* C12: protect_page, requires_auth and the page script built on
\* protect_page let the request continue only for a live session (the
\* authenticated flag set and the timeout not passed, which is when
\* is_authenticated returns true); otherwise the request is halted with
\* the session left unauthenticated.  A request that is admitted has
\* refreshed the session: login_time is the current time when the body
\* starts.
C12_GuardAdmitsLive ==
    /\ (last.op \in {"protect_page", "requires_auth"} /\ last.ret = "pass")
         => /\ LiveSession(session_state[last.s])
            /\ session_state[last.s]["login_time"] = isoformat(now)
    /\ \A s \in MainSessions :
        LET ss == session_state[s]
            live == LiveKeys(ss)
                      /\ now - fromisoformat(ss["login_time"]) <= session_timeout
            pp == protect_page(ss, now)
            ra == requires_auth(ss, now)
            mp == main_page(ss, now)
        IN  /\ pp.exc = "" /\ ra.exc = "" /\ mp.exc = ""
            /\ pp.halted <=> ~live
            /\ ra.halted <=> ~live
            /\ mp.body => live
            /\ live => (mp.body <=> Has(ss, "user"))
            /\ ~live =>
                /\ ~Get(pp.ss, "authenticated", FALSE)
                /\ ~Get(ra.ss, "authenticated", FALSE)
                /\ ~pp.refreshed /\ ~ra.refreshed
                /\ is_authenticated(ss, now).ret = FALSE
            /\ live =>
                /\ is_authenticated(ss, now).ret
                /\ pp.refreshed /\ ra.refreshed
                /\ pp.ss["login_time"] = isoformat(now)
                /\ ra.ss["login_time"] = isoformat(now)
                /\ mp.ss["login_time"] = isoformat(now)

\* C12, the call made: protect_page admitted a request of a session that
\* had logged in earlier, and login_time is the time of the request
C12_Witness ==
    /\ last.op = "protect_page"
    /\ last.ret = "pass"
    /\ activity[last.s].on
    /\ activity[last.s].login_at < now
    /\ session_state[last.s]["login_time"] = isoformat(now)

\* the role lists a function may be wrapped with
AllRoleLists == SUBSET StoredRoles

\* the wrapped function was called
Ran(r) == ~r.halted /\ r.exc = ""

\* C13: a function wrapped by requires_role(allowed_roles) is called
\* exactly when the session is live and the role of its user is in
\* allowed_roles (for requires_admin: admin; for requires_manager_or_above:
\* admin or manager); otherwise the request is halted, with 'Access Denied'
\* for a live session and 'Authentication required' for any other.
C13_RoleGate ==
    \A s \in MainSessions :
        LET ss == session_state[s]
            ad == requires_admin(ss, now)
            mg == requires_manager_or_above(ss, now)
        IN  /\ \A allowed_roles \in AllRoleLists :
                LET r == requires_role(ss, allowed_roles, now)
                IN  /\ r.exc = ""
                    /\ Ran(r) <=> (LiveSession(ss)
                                   /\ ss["user"].role \in allowed_roles)
                    /\ ~Ran(r) =>
                        /\ r.halted
                        /\ r.msgs # << >>
                        /\ r.msgs[Len(r.msgs)] =
                             IF LiveSession(ss)
                             THEN Msg("error", "Access Denied", 0)
                             ELSE Msg("error", "Authentication required", 0)
            /\ Ran(ad) <=> (LiveSession(ss) /\ ss["user"].role = "admin")
            /\ Ran(mg) <=> (LiveSession(ss)
                            /\ ss["user"].role \in {"admin", "manager"})

\* C13, the call made: a live session was denied by requires_role
C13_Witness ==
    /\ last.op = "requires_role"
    /\ last.ret = "deny"
    /\ LiveSession(session_state[last.s])
    /\ session_state[last.s]["user"].role = "manager"

\* the session is anonymous: its authenticated flag is absent or false
Anonymous(ss) == ~Get(ss, "authenticated", FALSE)

\* logout leaves none of the three session keys, and then the session is
\* not authenticated and has no current user
LoggedOut(ss) ==
    /\ DOMAIN logout(ss) \cap SessionKeys = {}
    /\ is_authenticated(logout(ss), now) =
         [ss |-> logout(ss), ret |-> FALSE, exc |-> "", msgs |-> << >>]
    /\ ~get_current_user(logout(ss), now).found

\* C14 as stated: after logout the keys user, authenticated and login_time
\* are absent, is_authenticated is false and get_current_user is none
\* until a later successful login; logout on an anonymous session changes
\* nothing.
C14_LogoutAnonymousNoChange ==
    \A s \in MainSessions :
        LET ss == session_state[s]
        IN  /\ LoggedOut(ss)
            /\ ~activity[s].on => Anonymous(ss)
            /\ Anonymous(ss) => logout(ss) = ss

\* C14 amended: after logout the keys user, authenticated and login_time
\* are absent, is_authenticated is false and get_current_user is none
\* until a later successful login; logout never fails, never touches any
\* other key, and on an anonymous session changes nothing except that it
\* removes an authenticated flag stored as false; a second logout changes
\* nothing.
C14_LogoutTakesEffect ==
    /\ last.op = "logout" => /\ DOMAIN session_state[last.s] \cap SessionKeys = {}
                             /\ last.exc = ""
    /\ \A s \in MainSessions :
        LET ss == session_state[s]
        IN  /\ LoggedOut(ss)
            /\ ~activity[s].on =>
                /\ Anonymous(ss)
                /\ ~is_authenticated(ss, now).ret
                /\ ~get_current_user(ss, now).found
            /\ \A k \in DOMAIN ss \ SessionKeys :
                   Has(logout(ss), k) /\ logout(ss)[k] = ss[k]
            /\ Anonymous(ss) =>
                 logout(ss) = IF Has(ss, "authenticated")
                              THEN Del(ss, "authenticated") ELSE ss
            /\ logout(logout(ss)) = logout(ss)

\* C14, the call made: logout ran, the session keys are gone and the
\* failed attempts of the session are still on record
C14_Witness ==
    /\ last.op = "logout"
    /\ DOMAIN session_state[last.s] \cap SessionKeys = {}
    /\ \E u \in Usernames : Attempts(session_state[last.s], u) # << >>

\* C15: the authenticated flag of a session goes from unset to set only in
\* a step that is a login call of that session which returned true, made
\* while the username was not locked, its row existed and was active, and
\* the password matched the stored hash; no other step (is_authenticated,
\* refresh_session, get_current_user, check_permission, the page guards,
\* logout, a failed login, the clock, the administration) sets it.
C15_OnlyLoginAuthenticates ==
    [][\A s \in Sessions :
         (Anonymous(session_state[s]) /\ ~Anonymous(session_state'[s])) =>
            /\ last'.op = "login"
            /\ last'.s = s
            /\ last'.ret = "True"
            /\ ~LockoutInForce(session_state[s], last'.username)
            /\ GoodCredentials(last'.username, last'.password)]_vars

\* C15, the call made: a login that returned true has just authenticated
\* the session
C15_Witness ==
    /\ last.op = "login"
    /\ last.ret = "True"
    /\ ~Anonymous(session_state[last.s])
    /\ activity[last.s].on
    /\ activity[last.s].login_at = now

\* the calls that count as page access or permission check
AccessCalls ==
    {"protect_page", "requires_auth", "requires_role", "check_permission"}

\* C16: every call of protect_page, requires_auth, requires_role and
\* check_permission made on a live session advances login_time to the
\* current time.
C16_EveryAccessRefreshes ==
    (last.op \in AccessCalls /\ LiveSession(session_state[last.s]))
        => session_state[last.s]["login_time"] = isoformat(now)

\* C17: a request of one session never changes the dictionary of another
\* session (user, authenticated, login_time, failed-attempt logs).  Lockout
\* is therefore per session: is_account_locked in a session is true only
\* by that session's own log, and while a username is locked in one
\* session a login for it in a session where it is not locked is judged on
\* its credentials alone, so the guesses against one username are not
\* bounded by max_attempts.
C17_SessionsIsolated ==
    /\ [][\A s \in Sessions :
            last'.s # s => session_state'[s] = session_state[s]]_vars
    /\ [](\A s \in Sessions : \A o \in Sessions \ {s} : \A i \in LoginInputs :
            LET r == LoginOf(o, i)
            IN  /\ is_account_locked(session_state[o], i[1], now).ret
                     => LockoutInForce(session_state[o], i[1])
                /\ (/\ LockoutInForce(session_state[s], i[1])
                    /\ ~LockoutInForce(session_state[o], i[1]))
                     => /\ r.exc # LockedText
                        /\ (GoodCredentials(i[1], i[2]) /\ i[3] = <<TRUE, TRUE, TRUE>>)
                             => r.ret
                        /\ (~GoodCredentials(i[1], i[2]) /\ i[3][1])
                             => Len(Attempts(r.ss, i[1]))
                                  = Len(Attempts(session_state[o], i[1])) + 1)

\* C17, the calls made: with the username locked in one session, one more
\* wrong password for it has just been tried and recorded in the other
C17_Witness ==
    \E s \in Sessions : \E o \in Sessions \ {s} :
        /\ last.op = "login"
        /\ last.s = o
        /\ last.ret = "False"
        /\ last.exc = ""
        /\ LockoutInForce(session_state[s], last.username)
        /\ Len(Attempts(session_state[s], last.username))
             + Len(Attempts(session_state[o], last.username)) > max_attempts

\* C18: for every password and salt, the empty salt included,
\* verify_password(password, hash_password(password, salt).hash, salt) is
\* true, it is false for any other password, and hash_password gives the
\* same result for the same password and salt.
C18_HashRoundTrip ==
    \A password \in Passwords :
     \A salt \in Salts \cup {users[u].password_salt : u \in DOMAIN users} :
      \A r1 \in TokenHex : \A r2 \in TokenHex :
        /\ verify_password(password, hash_password(password, salt, r1).hash,
                           salt, r2)
        /\ \A other \in Passwords \ {password} :
             ~verify_password(other, hash_password(password, salt, r1).hash,
                              salt, r2)
        /\ hash_password(password, salt, r1) = hash_password(password, salt, r2)

\* the attempts a call has made so far
AttemptsMade == Len(query.errors) + IF query.pc = "returned" THEN 1 ELSE 0

\* the sleeps after failed attempts 1..n: k times the retry delay after
\* failed attempt k
LinearBackoff(n) == [k \in 1..n |-> k * retry_delay]

\* C19: execute_query makes at most connection_retries (3) attempts; it
\* returns at the first attempt that succeeds and makes no attempt after
\* it; it sleeps k times the retry delay after failed attempt k (1 then 2
\* seconds) and not after the last attempt; when every attempt failed it
\* raises the error of the last one; and every call ends, returning or
\* raising.
C19_BoundedRetry ==
    /\ [](/\ AttemptsMade <= connection_retries
          /\ query.attempt < connection_retries
          /\ query.pc = "try" =>
               /\ Len(query.errors) = query.attempt
               /\ query.slept = LinearBackoff(query.attempt)
          /\ query.pc = "sleep" =>
               /\ Len(query.errors) = query.attempt + 1
               /\ Len(query.errors) < connection_retries
               /\ query.slept = LinearBackoff(query.attempt)
          /\ query.pc = "returned" =>
               /\ query.exc = ""
               /\ query.slept = LinearBackoff(Len(query.errors))
          /\ query.pc = "raised" =>
               /\ Len(query.errors) = connection_retries
               /\ query.exc = query.errors[connection_retries]
               /\ query.slept = LinearBackoff(connection_retries - 1))
    /\ [][query.pc \in {"returned", "raised"} =>
            (query'.pc = "try" /\ query'.errors = << >>)]_vars
    /\ (query.pc \in {"try", "sleep"}) ~> (query.pc \in {"returned", "raised"})

\* C19, the call made: the third attempt succeeded after sleeps of 1 and 2
\* seconds
C19_Witness ==
    /\ query.pc = "returned"
    /\ Len(query.errors) = 2
    /\ query.slept = <<1, 2>>

\* every entry of the log is strictly newer than t - lockout_duration
InWindow(log, t) ==
    \A k \in 1..Len(log) : fromisoformat(log[k]) > t - lockout_duration

\* the entries of the log that are strictly newer than cutoff, in order
RECURSIVE Kept(_, _)
Kept(log, cutoff) ==
    IF log = << >> THEN << >>
    ELSE IF fromisoformat(log[1]) > cutoff
    THEN << log[1] >> \o Kept(Tail(log), cutoff)
    ELSE Kept(Tail(log), cutoff)

\* right after record_failed_attempt the log of the username is the old
\* entries that are strictly newer than now - lockout_duration followed by
\* the present time
AfterRecord(ss, username) ==
    LET r == record_failed_attempt(ss, username, now)
        log == Attempts(r.ss, username)
    IN  /\ r.exc = ""
        /\ InWindow(log, now)
        /\ log = Kept(Attempts(ss, username), now - lockout_duration)
                   \o << isoformat(now) >>

\* C20 as stated: right after every record_failed_attempt call every
\* timestamp kept for the username is strictly newer than now -
\* lockout_duration and the newest is the one just appended; and at all
\* times the stored log of a username holds no entry older than
\* lockout_duration.
C20_LogWindowAlways ==
    \A s \in MainSessions : \A u \in Usernames :
        /\ AfterRecord(session_state[s], u)
        /\ \A k \in 1..Len(Attempts(session_state[s], u)) :
             now - fromisoformat(Attempts(session_state[s], u)[k])
               <= lockout_duration

\* C20 amended: right after every record_failed_attempt call every
\* timestamp kept for the username is strictly newer than now -
\* lockout_duration and the newest is the one just appended (so it is
\* after every login that recorded a failure), the entries kept being
\* exactly the earlier ones still inside that window; the window is
\* enforced at writes only.
C20_LogWindowAtWrites ==
    /\ (last.op = "login" /\ last.ret = "False" /\ last.exc = ""
          /\ Attempts(session_state[last.s], last.username) # << >>)
         => LET log == Attempts(session_state[last.s], last.username)
            IN  /\ InWindow(log, now)
                /\ log[Len(log)] = isoformat(now)
                /\ Len(log) <= last.before + 1
    /\ \A s \in MainSessions : \A u \in Usernames :
          AfterRecord(session_state[s], u)

\* C20, the call made: a failed login recorded its attempt and the write
\* dropped an entry that had left the window
C20_Witness ==
    /\ last.op = "login"
    /\ last.ret = "False"
    /\ last.exc = ""
    /\ last.before > 0
    /\ Len(Attempts(session_state[last.s], last.username)) <= last.before
    /\ Attempts(session_state[last.s], last.username) # << >>

\* C21: when the account is unlocked, the credential query returns, the row
\* is active and the password verifies, login returns true and leaves the
\* session authenticated; and last_login is written only by a login call
\* that returns true.
C21_VerifiedLoginSucceeds ==
    \A s \in MainSessions, i \in LoginInputs :
        LET ss == session_state[s]
            lk == is_account_locked(ss, i[1], now)
            r == LoginOf(s, i)
        IN  /\ (lk.exc = "" /\ ~lk.ret /\ i[3][1]
                    /\ GoodCredentials(i[1], i[2]))
               => (r.ret /\ is_authenticated(r.ss, now).ret)
            /\ r.wrote => r.ret

\* C22: the role of every User that get_user returns for a row of the
\* table, and of the user stored in every authenticated session, is one of
\* the five values of UserRole.
C22_RoleEnumerated ==
    /\ \A u \in Usernames :
           LET gu == get_user(users, u, TRUE)
           IN  gu.found => gu.user.role \in UserRole
    /\ \A s \in MainSessions :
           LET ss == session_state[s]
           IN  (Get(ss, "authenticated", FALSE) = TRUE /\ Has(ss, "user"))
                   => from_dict(ss["user"]).role \in UserRole

\* C23: record_failed_attempt emits the lockout notice exactly when the
\* number of entries it retained for the username is at least max_attempts,
\* which is exactly when an is_account_locked call made right after it
\* returns true; otherwise it emits the warning, whose remaining count is
\* max_attempts minus the retained number and is at least 1.
C23_NoticeAtThreshold ==
    \A s \in MainSessions : \A u \in Usernames :
        LET r == record_failed_attempt(session_state[s], u, now)
            count == Len(Attempts(r.ss, u))
            lk == is_account_locked(r.ss, u, now)
            notice == << Msg("error", "Account locked", lockout_duration) >>
        IN  /\ r.exc = ""
            /\ lk.exc = ""
            /\ (r.msgs = notice) <=> (count >= max_attempts)
            /\ (r.msgs = notice) <=> lk.ret
            /\ (r.msgs # notice) =>
                 /\ r.msgs = << Msg("warning", "Invalid credentials",
                                    max_attempts - count) >>
                 /\ max_attempts - count >= 1

\* C23, the call made: a failed login recorded the attempt that reached the
\* threshold, so the notice was emitted and the account is locked
C23_Witness ==
    /\ last.op = "login"
    /\ last.ret = "False"
    /\ last.exc = ""
    /\ last.before = max_attempts - 1
    /\ Len(Attempts(session_state[last.s], last.username)) = max_attempts
    /\ is_account_locked(session_state[last.s], last.username, now).ret

\* C24: refresh_session takes effect only on an authenticated session.  On
\* a session for which is_authenticated returns false (anonymous, or
\* expired, in which case the expiry is carried out) it stores no
\* login_time and is_authenticated is still false afterwards; on a session
\* for which is_authenticated returns true it sets login_time to the
\* present time and changes nothing else.
C24_RefreshOnlyWhenAuthenticated ==
    \A s \in MainSessions :
        LET ss == session_state[s]
            ia == is_authenticated(ss, now)
            r == refresh_session(ss, now)
        IN  /\ r.exc = ""
            /\ ~ia.ret =>
                 /\ r.ss = ia.ss
                 /\ ~Has(r.ss, "login_time")
                 /\ ~is_authenticated(r.ss, now).ret
            /\ ia.ret => r.ss = Set(ss, "login_time", isoformat(now))

\* C24, the call made: refresh_session was called on a session that had
\* been logged in and had expired, and the session holds none of the three
\* keys
C24_Witness ==
    /\ last.op = "refresh_session"
    /\ last.exc = ""
    /\ activity[last.s].on
    /\ DOMAIN session_state[last.s] \cap SessionKeys = {}

C26_LogBounded ==
    \A s \in MainSessions : \A u \in Usernames :
        /\ Len(Attempts(session_state[s], u)) <= max_attempts
        /\ \A i \in LoginInputs :
             Len(Attempts(LoginOf(s, i).ss, u)) <= max_attempts
        /\ LET lk == is_account_locked(session_state[s], u, now)
           IN  ~lk.ret => Len(Attempts(lk.ss, u)) < max_attempts

\* C26, the call made: a login was refused as locked while max_attempts
\* entries were on record, and the log still holds max_attempts entries
C26_Witness ==
    /\ last.op = "login"
    /\ last.exc = LockedText
    /\ last.before = max_attempts
    /\ Len(Attempts(session_state[last.s], last.username)) = max_attempts

\* an authenticate call made during a lockout of the username is refused as
\* locked and leaves the session dictionary, the log included, as it was
LockedAttemptNotRecorded ==
    \A s \in MainSessions : \A i \in LoginInputs :
        LET ss == session_state[s]
            a == authenticate(ss, users, i[1], i[2], now, i[3][1], i[3][2],
                              i[3][3], i[4])
        IN  LockoutInForce(ss, i[1]) =>
                /\ a.exc = LockedText
                /\ Attempts(a.ss, i[1]) = Attempts(ss, i[1])

\* with max_attempts entries on record the username is locked exactly while
\* less than lockout_duration has passed since the newest of them, and the
\* failure that reached the threshold is that newest entry
LockedUntilWindowEnds ==
    /\ \A s \in MainSessions : \A u \in Usernames :
          LET log == Attempts(session_state[s], u)
          IN  Len(log) >= max_attempts =>
                (is_account_locked(session_state[s], u, now).ret
                   <=> now - fromisoformat(log[Len(log)]) < lockout_duration)
    /\ (last.op = "login" /\ last.ret = "False" /\ last.exc = ""
          /\ last.before = max_attempts - 1)
         => LET log == Attempts(session_state[last.s], last.username)
            IN  /\ Len(log) = max_attempts => log[Len(log)] = isoformat(now)
                /\ Len(log) = max_attempts =>
                     LockoutInForce(session_state[last.s], last.username)

\* during a lockout no step but the passing of time changes the log of the
\* locked username, and the passing of time only ages its entries
LockoutNotExtended ==
    \A s \in MainSessions : \A u \in Usernames :
        LockoutInForce(session_state[s], u) =>
            IF last'.op = "tick"
            THEN Attempts(session_state'[s], u)
                   = Attempts(AgedDict(session_state[s]), u)
            ELSE Attempts(session_state'[s], u) = Attempts(session_state[s], u)

\* C27: attempts made while a username is locked are not recorded and do
\* not extend the lockout: a rejected-as-locked authenticate leaves the log
\* unchanged, no call made during the lockout changes it, and the username
\* is locked exactly until lockout_duration has passed since the failure
\* that reached the threshold.
C27_LockedAttemptsNotRecorded ==
    /\ [](LockedAttemptNotRecorded /\ LockedUntilWindowEnds)
    /\ [][LockoutNotExtended]_vars

\* C27, the call made: a login was refused as locked one unit of time
\* before the end of the lockout, and the log is as the threshold failure
\* left it
C27_Witness ==
    /\ last.op = "login"
    /\ last.exc = LockedText
    /\ LET log == Attempts(session_state[last.s], last.username)
       IN  /\ Len(log) = max_attempts
           /\ now - fromisoformat(log[Len(log)]) = lockout_duration - 1
           /\ lockout_duration - 1 > 0

\* C28: a failed login leaves an existing session untouched.  Whenever
\* login returns false (no match, locked, deactivated, store error), the
\* keys user, authenticated and login_time are afterwards as they were
\* before, and a session that was live before the call is live after it
\* with the same current user.
C28_FailedLoginKeepsSession ==
    \A s \in MainSessions : \A i \in LoginInputs :
        LET ss == session_state[s]
            r == LoginOf(s, i)
        IN  ~r.ret =>
              /\ ~r.raised
              /\ SessionPart(r.ss) = SessionPart(ss)
              /\ LiveSession(ss) =>
                   /\ is_authenticated(r.ss, now).ret
                   /\ get_current_user(r.ss, now)
                        = [get_current_user(ss, now) EXCEPT !.ss = r.ss]

\* C28, the call made: a login failed in a session that is live, and a
\* failed attempt was recorded next to the untouched session keys
C28_Witness ==
    /\ last.op = "login"
    /\ last.ret = "False"
    /\ last.exc = ""
    /\ LiveSession(session_state[last.s])
    /\ Attempts(session_state[last.s], last.username) # << >>

\* the entries of a session dictionary other than the three session keys
TrackerPart(ss) == [k \in DOMAIN ss \ SessionKeys |-> ss[k]]

\* C29: logout, and the expiry that is_authenticated carries out, remove
\* only user, authenticated and login_time and leave every
\* failed_attempts_<username> entry as it was, so a username is locked in
\* the session after the logout or the timeout exactly if it was locked
\* before.
C29_LockoutSurvivesLogout ==
    \A s \in MainSessions : \A u \in Usernames :
        LET ss == session_state[s]
            lo == logout(ss)
            ia == is_authenticated(ss, now)
        IN  /\ ia.exc = ""
            /\ TrackerPart(lo) = TrackerPart(ss)
            /\ TrackerPart(ia.ss) = TrackerPart(ss)
            /\ Attempts(lo, u) = Attempts(ss, u)
            /\ Attempts(ia.ss, u) = Attempts(ss, u)
            /\ is_account_locked(lo, u, now).ret
                 = is_account_locked(ss, u, now).ret
            /\ is_account_locked(ia.ss, u, now).ret
                 = is_account_locked(ss, u, now).ret
            /\ LockoutInForce(ss, u) =>
                 (LockoutInForce(lo, u) /\ LockoutInForce(ia.ss, u))

\* C29, the call made: is_authenticated expired a session in which a
\* username is locked, and the username is still locked
C29_Witness ==
    /\ last.op = "is_authenticated"
    /\ last.ret = "False"
    /\ activity[last.s].on
    /\ DOMAIN session_state[last.s] \cap SessionKeys = {}
    /\ \E u \in Usernames : LockoutInForce(session_state[last.s], u)

\* C30: the three session keys are consistent in every state reached
\* through the handlers: when authenticated is true, user and login_time
\* are both present (and login_time parses, so the timeout test is always
\* made); when authenticated is false or absent, neither user nor
\* login_time is present.
C30_SessionKeysConsistent ==
    \A s \in MainSessions :
        LET ss == session_state[s]
        IN  /\ Has(ss, "authenticated") => ss["authenticated"] \in BOOLEAN
            /\ Get(ss, "authenticated", FALSE) = TRUE =>
                 /\ Has(ss, "user")
                 /\ Has(ss, "login_time")
                 /\ IsIso(ss["login_time"])
            /\ Get(ss, "authenticated", FALSE) = FALSE =>
                 /\ ~Has(ss, "user")
                 /\ ~Has(ss, "login_time")

\* C30, the call made: protect_page halted on a session that had been
\* logged in and had expired; it stored authenticated = False, and user and
\* login_time are absent
C30_Witness ==
    /\ last.op = "protect_page"
    /\ last.ret = "halt"
    /\ activity[last.s].on
    /\ Has(session_state[last.s], "authenticated")
    /\ session_state[last.s]["authenticated"] = FALSE
    /\ ~Has(session_state[last.s], "user")
    /\ ~Has(session_state[last.s], "login_time")

====
